---- MODULE Spec2Model ----
(***************************************************************************)
(* A model of contxt/cli/utils.py: the Clients holder of lazily built,     *)
(* cached service clients, the pluck projection, print_table and the       *)
(* csv_callback option parser.                                             *)
(*                                                                         *)
(* A Python str is modelled as a sequence of one-character strings, so     *)
(* that str.split and str.strip are computed rather than assumed.          *)
(***************************************************************************)
EXTENDS Integers, Sequences, FiniteSets, TLC

VARIABLES auth, cache, ncons, accessed, first, ret,
          pl_call, pl_ret,
          pt_call, pt_out, pt_err,
          cb_call, cb_ret

vars == <<auth, cache, ncons, accessed, first, ret,
          pl_call, pl_ret, pt_call, pt_out, pt_err, cb_call, cb_ret>>

clientVars == <<auth, cache, ncons, accessed, first, ret>>
pluckVars == <<pl_call, pl_ret>>
printVars == <<pt_call, pt_out, pt_err>>
csvVars == <<cb_call, cb_ret>>

(***************************************************************************)
(* Bounds of the model.                                                    *)
(***************************************************************************)
MaxKeys == 2
MaxItems == 2
MaxValueLen == 4
MaxAccessed == 3
MaxSerial == 2

(***************************************************************************)
(* Outcomes of a call: a normal return or the exception that left it.      *)
(***************************************************************************)
NoErr == "none"
AttributeError == "AttributeError"
BadParameter == "BadParameter"
TypeError == "TypeError"

(***************************************************************************)
(* str.split(sep) for a non-empty sep: a left-to-right scan that cuts at   *)
(* every non-overlapping occurrence of sep and keeps empty pieces.         *)
(***************************************************************************)
RECURSIVE SplitFrom(_, _, _, _)
SplitFrom(s, sep, i, cur) ==
    IF i > Len(s)
    THEN <<cur>>
    ELSE IF i + Len(sep) - 1 <= Len(s) /\ SubSeq(s, i, i + Len(sep) - 1) = sep
         THEN <<cur>> \o SplitFrom(s, sep, i + Len(sep), <<>>)
         ELSE SplitFrom(s, sep, i + 1, Append(cur, s[i]))

split(s, sep) == SplitFrom(s, sep, 1, <<>>)

(***************************************************************************)
(* str.strip(): leading and trailing whitespace removed.                   *)
(***************************************************************************)
Whitespace == {" "}

RECURSIVE lstrip(_)
lstrip(s) ==
    IF s # <<>> /\ Head(s) \in Whitespace THEN lstrip(Tail(s)) ELSE s

RECURSIVE rstrip(_)
rstrip(s) ==
    IF s # <<>> /\ s[Len(s)] \in Whitespace
    THEN rstrip(SubSeq(s, 1, Len(s) - 1))
    ELSE s

(* Only the leading whitespace removed. *)
stripLeading(s) == lstrip(s)

strip(s) == rstrip(lstrip(s))

(***************************************************************************)
(* Domain objects.  A value is a leaf (a scalar) or an object carrying     *)
(* named attributes; both have the same record shape.                      *)
(***************************************************************************)
Leaf(x) == [kind |-> "leaf", val |-> x, attrs |-> <<>>]
Obj(f) == [kind |-> "obj", val |-> "", attrs |-> f]
NoneValue == [kind |-> "none", val |-> "", attrs |-> <<>>]

sName == <<"n">>
sAd == <<"a", "d">>
sCity == <<"c">>
sZip == <<"z">>

AttrNames(d) == IF d.kind = "obj" THEN DOMAIN d.attrs ELSE {}

(* getattr(d, name, None): a missing attribute yields None. *)
getattrDefaultNone(d, name) ==
    IF name \in AttrNames(d)
    THEN [err |-> NoErr, v |-> d.attrs[name]]
    ELSE [err |-> NoErr, v |-> NoneValue]

(***************************************************************************)
(* getattr(d, name): the attribute, or AttributeError.                     *)
(***************************************************************************)
getattr(d, name) ==
    IF name \in AttrNames(d)
    THEN [err |-> NoErr, v |-> d.attrs[name]]
    ELSE [err |-> AttributeError, v |-> NoneValue]

(* A fold that takes the segments from the right. *)
RECURSIVE reduceFromRight(_, _)
reduceFromRight(segs, d) ==
    IF segs = <<>>
    THEN [err |-> NoErr, v |-> d]
    ELSE LET r == getattr(d, segs[Len(segs)])
         IN  IF r.err # NoErr
             THEN r
             ELSE reduceFromRight(SubSeq(segs, 1, Len(segs) - 1), r.v)

(***************************************************************************)
(* reduce(lambda d, k: getattr(d, k), segs, d): the left fold of getattr   *)
(* over the segments; an exception leaves the fold at once.                *)
(***************************************************************************)
RECURSIVE reduce(_, _)
reduce(segs, d) ==
    IF segs = <<>>
    THEN [err |-> NoErr, v |-> d]
    ELSE LET r == getattr(d, Head(segs))
         IN  IF r.err # NoErr THEN r ELSE reduce(Tail(segs), r.v)

(***************************************************************************)
(* A dict keeps insertion order; storing under a key already present       *)
(* replaces the value and keeps the key's place.                           *)
(***************************************************************************)
DictKeys(row) == [i \in 1..Len(row) |-> row[i].k]
DictKeySet(row) == {row[i].k : i \in 1..Len(row)}
DictGet(row, k) == row[CHOOSE i \in 1..Len(row) : row[i].k = k].v

DictSet(row, k, v) ==
    IF k \in DictKeySet(row)
    THEN [i \in 1..Len(row) |-> IF row[i].k = k THEN [k |-> k, v |-> v] ELSE row[i]]
    ELSE Append(row, [k |-> k, v |-> v])

(***************************************************************************)
(* key_func: the caller's callable.  The default is the identity; the      *)
(* other one modelled keeps the last dot-separated segment.                *)
(***************************************************************************)
KeyFuncs == {"identity", "last_segment"}

key_func(kf, k) ==
    IF kf = "identity"
    THEN k
    ELSE LET segs == split(k, <<".">>) IN segs[Len(segs)]

(* A comprehension that stores under k instead of key_func(k). *)
RECURSIVE RowFromRawKey(_, _, _, _, _, _)
RowFromRawKey(keys, d, key_sep, kf, i, row) ==
    IF i > Len(keys)
    THEN [err |-> NoErr, row |-> row]
    ELSE LET r == reduce(split(keys[i], key_sep), d)
         IN  IF r.err # NoErr
             THEN [err |-> r.err, row |-> <<>>]
             ELSE RowFromRawKey(keys, d, key_sep, kf, i + 1,
                                DictSet(row, keys[i], r.v))

(***************************************************************************)
(* The dict comprehension of pluck for one item d, from the i-th key on.   *)
(***************************************************************************)
RECURSIVE RowFrom(_, _, _, _, _, _)
RowFrom(keys, d, key_sep, kf, i, row) ==
    IF i > Len(keys)
    THEN [err |-> NoErr, row |-> row]
    ELSE LET r == reduce(split(keys[i], key_sep), d)
         IN  IF r.err # NoErr
             THEN [err |-> r.err, row |-> <<>>]
             ELSE RowFrom(keys, d, key_sep, kf, i + 1,
                          DictSet(row, key_func(kf, keys[i]), r.v))

PluckRow(keys, d, key_sep, kf) == RowFrom(keys, d, key_sep, kf, 1, <<>>)

(***************************************************************************)
(* The list comprehension of pluck, from the j-th item on.                 *)
(***************************************************************************)
RECURSIVE RowsFrom(_, _, _, _, _, _)
RowsFrom(keys, items, key_sep, kf, j, rows) ==
    IF j > Len(items)
    THEN [err |-> NoErr, rows |-> rows]
    ELSE LET r == PluckRow(keys, items[j], key_sep, kf)
         IN  IF r.err # NoErr
             THEN [err |-> r.err, rows |-> <<>>]
             ELSE RowsFrom(keys, items, key_sep, kf, j + 1, Append(rows, r.row))

pluck(keys, items, key_sep, kf) == RowsFrom(keys, items, key_sep, kf, 1, <<>>)

(***************************************************************************)
(* The inputs of pluck: domain objects, field specifications, separators.  *)
(***************************************************************************)
sLo == <<"l", "o">>

obj1 ==
    Obj((sName :> Leaf("Acme"))
        @@ (sAd :> Obj((sCity :> Leaf("Austin"))))
        @@ (sLo :> Obj((sCity :> Leaf("Dallas")))))

obj2 ==
    Obj((sName :> Leaf("Bolt"))
        @@ (sAd :> Obj((sCity :> Leaf("Boston")) @@ (sZip :> Leaf("02101"))))
        @@ (sLo :> Obj((sCity :> Leaf("Boston")))))

obj3 == Obj((sName :> Leaf("Core")))

ObjPool == {obj1, obj2, obj3}

kName == <<"n">>
kAdCity == <<"a", "d", ".", "c">>
kLoCity == <<"l", "o", ".", "c">>
kAdZip == <<"a", "d", ".", "z">>
kAdSlashCity == <<"a", "d", "/", "c">>
kNameCity == <<"n", ".", "c">>

KeyPool == {kName, kAdCity, kLoCity, kAdZip, kAdSlashCity, kNameCity}

SepPool == {<<".">>, <<"/">>}

SeqsUpTo(S, n) == UNION {[1..m -> S] : m \in 0..n}

NoPluckCall ==
    [called |-> FALSE, keys |-> <<>>, items |-> <<>>, key_sep |-> <<".">>,
     kf |-> "identity"]

NoRows == [err |-> NoErr, rows |-> <<>>]

(***************************************************************************)
(* A call of pluck(keys, items, key_sep, key_func).  pluck is a pure       *)
(* function: a behaviour makes one call, on any of the inputs.             *)
(***************************************************************************)
PluckCall ==
    /\ ~pl_call.called
    /\ \E keys \in SeqsUpTo(KeyPool, MaxKeys), items \in SeqsUpTo(ObjPool, MaxItems),
          key_sep \in SepPool, kf \in KeyFuncs :
        /\ pl_call' = [called |-> TRUE, keys |-> keys, items |-> items,
                       key_sep |-> key_sep, kf |-> kf]
        /\ pl_ret' = pluck(keys, items, key_sep, kf)
        /\ UNCHANGED <<clientVars, printVars, csvVars>>

(***************************************************************************)
(* Optional values: None or a value.                                       *)
(***************************************************************************)
None == [none |-> TRUE, v |-> <<>>]
Some(x) == [none |-> FALSE, v |-> x]

(***************************************************************************)
(* print_table(items, keys, sort_by, count).  The output is the sequence   *)
(* of print events: the table handed to Serializer.to_table with its sort  *)
(* key, and the count line.  An exception of pluck leaves print_table      *)
(* before anything is printed.                                             *)
(***************************************************************************)
Truthy(keys) == ~keys.none /\ keys.v # <<>>

InList(x, l) == \E i \in 1..Len(l) : l[i] = x

(* sort_by passed on without the test against keys. *)
EffectiveSortKept(keys, sort_by) == sort_by

EffectiveSort(keys, sort_by) ==
    IF ~sort_by.none /\ InList(sort_by.v, keys.v) THEN sort_by ELSE None

TableEvent(items, sort_by) == [ev |-> "table", items |-> items, sort_by |-> sort_by, n |-> 0]
CountEvent(n) == [ev |-> "count", items |-> <<>>, sort_by |-> None, n |-> n]

(* The count line printed under `if items:` instead of after it. *)
PrintTailCountInside(items, sort_by, count) ==
    IF items # <<>>
    THEN <<TableEvent(items, sort_by)>>
         \o (IF count THEN <<CountEvent(Len(items))>> ELSE <<>>)
    ELSE <<>>

PrintTail(items, sort_by, count) ==
    (IF items # <<>> THEN <<TableEvent(items, sort_by)>> ELSE <<>>)
    \o (IF count THEN <<CountEvent(Len(items))>> ELSE <<>>)

print_table(items, keys, sort_by, count) ==
    IF Truthy(keys)
    THEN LET p == pluck(keys.v, items, <<".">>, "identity")
         IN  IF p.err # NoErr
             THEN [err |-> p.err, out |-> <<>>]
             ELSE [err |-> NoErr,
                   out |-> PrintTail(p.rows, EffectiveSort(keys, sort_by), count)]
    ELSE [err |-> NoErr, out |-> PrintTail(items, sort_by, count)]

SortPool == {kName, kAdCity, kAdZip}

NoPrintCall ==
    [called |-> FALSE, items |-> <<>>, keys |-> None, sort_by |-> None, count |-> TRUE]

PrintTableCall ==
    /\ ~pt_call.called
    /\ \E items \in SeqsUpTo(ObjPool, MaxItems),
          keys \in {None} \cup {Some(k) : k \in SeqsUpTo(KeyPool, MaxKeys)},
          sort_by \in {None} \cup {Some(k) : k \in SortPool},
          count \in BOOLEAN :
        LET r == print_table(items, keys, sort_by, count)
        IN  /\ pt_call' = [called |-> TRUE, items |-> items, keys |-> keys,
                           sort_by |-> sort_by, count |-> count]
            /\ pt_out' = r.out
            /\ pt_err' = r.err
            /\ UNCHANGED <<clientVars, pluckVars, csvVars>>

(***************************************************************************)
(* csv_callback(options, all) returns _callback(ctx, param, value).  The   *)
(* value click hands over is a str, a list, or None.                       *)
(***************************************************************************)
StrValue(s) == [kind |-> "str", s |-> s, l |-> <<>>]
ListValue(l) == [kind |-> "list", s |-> <<>>, l |-> l]
NoValue == [kind |-> "none", s |-> <<>>, l |-> <<>>]

sAll == <<"a", "l", "l">>

(* `all or options`: None and the empty list are both falsy. *)
AllOrOptions(all, options) ==
    IF ~all.none /\ all.v # <<>> THEN all.v ELSE options

(* The parse step: the fields, or None when value is None. *)
ParseFields(options, all, value) ==
    IF value.kind = "str" /\ value.s = sAll
    THEN Some(AllOrOptions(all, options))
    ELSE IF value.kind = "str"
         THEN LET parts == split(value.s, <<",">>)
              IN  Some([i \in 1..Len(parts) |-> strip(parts[i])])
         ELSE IF value.kind = "list" THEN Some(value.l) ELSE None

(* The validate loop: the first field that is not an option raises. *)
RECURSIVE ValidateFrom(_, _, _)
ValidateFrom(fields, options, i) ==
    IF i > Len(fields)
    THEN [err |-> NoErr, fields |-> fields, bad |-> <<>>]
    ELSE IF ~InList(fields[i], options)
         THEN [err |-> BadParameter, fields |-> <<>>, bad |-> fields[i]]
         ELSE ValidateFrom(fields, options, i + 1)

(* The callback: its outcome, and the fields as the parse step left them.
   Iterating over None raises TypeError. *)
csv_callback(options, all, value) ==
    LET fields == ParseFields(options, all, value)
        r == IF fields.none
             THEN [err |-> TypeError, fields |-> <<>>, bad |-> <<>>]
             ELSE ValidateFrom(fields.v, options, 1)
    IN  [err |-> r.err, fields |-> r.fields, bad |-> r.bad, parsed |-> fields]

(* The callback fields_option builds: all=[] is always passed. *)
fields_option(options, value) == csv_callback(options, Some(<<>>), value)

tA == <<"a">>
tB == <<"b">>
tZ == <<"z">>

Alphabet == {"a", "b", "z", "l", ",", " "}
OptionsPool == {<<tA, tB>>, <<tA, tB, sAll>>, <<tB>>}
AllPool == {None, Some(<<>>), Some(<<tB>>), Some(<<tZ>>)}
ListPool == {<<>>, <<tA>>, <<tB, tA>>, <<tZ>>}

ValuePool ==
    {StrValue(s) : s \in SeqsUpTo(Alphabet, MaxValueLen)}
    \cup {ListValue(l) : l \in ListPool} \cup {NoValue}

NoCsvCall ==
    [called |-> FALSE, via |-> "", options |-> <<>>, all |-> None, value |-> NoValue]

NoCsvRet == [err |-> NoErr, fields |-> <<>>, bad |-> <<>>, parsed |-> None]

(* A call of the callback built by csv_callback(options, all). *)
CsvCallback ==
    /\ ~cb_call.called
    /\ \E options \in OptionsPool, all \in AllPool, value \in ValuePool :
        /\ cb_call' = [called |-> TRUE, via |-> "csv_callback", options |-> options,
                       all |-> all, value |-> value]
        /\ cb_ret' = csv_callback(options, all, value)
        /\ UNCHANGED <<clientVars, pluckVars, printVars>>

(* A call of the callback built by fields_option for an object's fields. *)
FieldsOption ==
    /\ ~cb_call.called
    /\ \E options \in OptionsPool, value \in ValuePool :
        /\ cb_call' = [called |-> TRUE, via |-> "fields_option", options |-> options,
                       all |-> Some(<<>>), value |-> value]
        /\ cb_ret' = fields_option(options, value)
        /\ UNCHANGED <<clientVars, pluckVars, printVars>>

(***************************************************************************)
(* Clients: one accessor per service, each a cachedproperty that builds    *)
(* the service's client from self.auth.                                    *)
(***************************************************************************)
Services ==
    {"assets", "contxt", "ems", "events", "facilities", "health", "iot", "sis"}

(* A copy-and-paste slip: the ems accessor builds an EventsService. *)
ServiceClassPasted(s) ==
    CASE s = "assets" -> "AssetsService"
      [] s = "contxt" -> "ContxtService"
      [] s = "ems" -> "EventsService"
      [] s = "events" -> "EventsService"
      [] s = "facilities" -> "FacilitiesService"
      [] s = "health" -> "HealthService"
      [] s = "iot" -> "IotService"
      [] s = "sis" -> "SisService"

ServiceClass(s) ==
    CASE s = "assets" -> "AssetsService"
      [] s = "contxt" -> "ContxtService"
      [] s = "ems" -> "EmsService"
      [] s = "events" -> "EventsService"
      [] s = "facilities" -> "FacilitiesService"
      [] s = "health" -> "HealthService"
      [] s = "iot" -> "IotService"
      [] s = "sis" -> "SisService"

(* The sis accessor declared a plain @property. *)
IsCachedPropertyButSis(s) == s \in Services \ {"sis"}

(* Every accessor is decorated with @cachedproperty. *)
IsCachedProperty(s) == s \in Services

Auths == {"auth1", "auth2"}

(* An accessor that passes some other auth than self.auth. *)
AuthArgOther == CHOOSE a \in Auths : a # auth

(* The argument every accessor passes to the constructor: self.auth. *)
AuthArg == auth

NoInstance == [acc |-> "", cls |-> "", auth |-> "", serial |-> 0]

NewInstance(s) ==
    [acc |-> s, cls |-> ServiceClass(s), auth |-> AuthArg, serial |-> ncons[s] + 1]

NoReturn == [acc |-> "", err |-> NoErr, inst |-> NoInstance, cached |-> FALSE]

(* cachedproperty: a value stored for the accessor is returned as it is;
   otherwise the accessor's body runs and its result is stored. *)
HasCached(s) == IsCachedProperty(s) /\ cache[s] # NoInstance

MayRead(s) == s \in accessed \/ Cardinality(accessed) < MaxAccessed

(* A read of clients.<s> that returns a client. *)
AccessorRead(s) ==
    /\ MayRead(s)
    /\ HasCached(s) \/ ncons[s] < MaxSerial
    /\ LET inst == IF HasCached(s) THEN cache[s] ELSE NewInstance(s)
       IN  /\ ncons' = IF HasCached(s) THEN ncons ELSE [ncons EXCEPT ![s] = @ + 1]
           /\ cache' = IF ~HasCached(s) /\ IsCachedProperty(s)
                       THEN [cache EXCEPT ![s] = inst]
                       ELSE cache
           /\ first' = IF first[s] = NoInstance THEN [first EXCEPT ![s] = inst] ELSE first
           /\ ret' = [acc |-> s, err |-> NoErr, inst |-> inst, cached |-> HasCached(s)]
    /\ accessed' = accessed \cup {s}
    /\ UNCHANGED <<auth, pluckVars, printVars, csvVars>>

(* A read of clients.<s> whose service constructor raises: the exception
   leaves the accessor and nothing is stored. *)
AccessorRaise(s) ==
    /\ MayRead(s)
    /\ ~HasCached(s)
    /\ ret' = [acc |-> s, err |-> "ConstructionError", inst |-> NoInstance,
               cached |-> FALSE]
    /\ accessed' = accessed \cup {s}
    /\ UNCHANGED <<auth, cache, ncons, first, pluckVars, printVars, csvVars>>

(***************************************************************************)
(* The initial state: a Clients instance just constructed with an auth,    *)
(* and no call made yet.                                                   *)
(***************************************************************************)
Init ==
    /\ auth \in Auths
    /\ cache = [s \in Services |-> NoInstance]
    /\ ncons = [s \in Services |-> 0]
    /\ accessed = {}
    /\ first = [s \in Services |-> NoInstance]
    /\ ret = NoReturn
    /\ pl_call = NoPluckCall
    /\ pl_ret = NoRows
    /\ pt_call = NoPrintCall
    /\ pt_out = <<>>
    /\ pt_err = NoErr
    /\ cb_call = NoCsvCall
    /\ cb_ret = NoCsvRet

NextClients == \E s \in Services : AccessorRead(s) \/ AccessorRaise(s)
NextPluck == PluckCall
NextPrint == PrintTableCall
NextCsv == CsvCallback \/ FieldsOption

SpecClients == Init /\ [][NextClients]_vars
SpecPluck == Init /\ [][NextPluck]_vars
SpecPrint == Init /\ [][NextPrint]_vars
SpecCsv == Init /\ [][NextCsv]_vars

(***************************************************************************)
(*                         Properties of Clients                           *)
(***************************************************************************)

Constructed == {s \in Services : cache[s] # NoInstance}

(* The service each client class belongs to (spec, section 3). *)
AccessorOfClass(c) ==
    CASE c = "AssetsService" -> "assets"
      [] c = "ContxtService" -> "contxt"
      [] c = "EmsService" -> "ems"
      [] c = "EventsService" -> "events"
      [] c = "FacilitiesService" -> "facilities"
      [] c = "HealthService" -> "health"
      [] c = "IotService" -> "iot"
      [] c = "SisService" -> "sis"
      [] OTHER -> ""

(* C1: over any sequence of accessor reads on one Clients instance, each
   service's client is constructed at most once, and every read that returns
   a client returns the very instance the first read of that accessor
   returned. *)
C1_ConstructedOnceSameInstance ==
    /\ \A s \in Services : ncons[s] <= 1
    /\ (ret.acc \in Services /\ ret.err = NoErr) =>
           /\ ret.inst # NoInstance
           /\ ret.inst = first[ret.acc]

(* A later read of an accessor answered from the cache, with another
   service's client constructed in between. *)
C1_Witness ==
    /\ ret.acc = "ems" /\ ret.err = NoErr /\ ret.cached
    /\ ret.inst = first["ems"]
    /\ ncons["ems"] = 1
    /\ cache["iot"] # NoInstance

(* C2: construction is lazy.  A fresh Clients instance has constructed no
   client; in every state each constructed client sits under an accessor
   that has been read and is the client of that accessor's own service, so
   no read constructs the client of another service. *)
C2_LazyConstruction ==
    /\ accessed = {} => (Constructed = {} /\ \A s \in Services : ncons[s] = 0)
    /\ \A s \in Services : ncons[s] > 0 => s \in accessed
    /\ \A s \in Constructed :
           /\ s \in accessed
           /\ AccessorOfClass(cache[s].cls) = s
    /\ ret.inst # NoInstance => AccessorOfClass(ret.inst.cls) = ret.acc

(* Two accessors read and constructed, a third read without a client (its
   constructor raised), every other service untouched. *)
C2_Witness ==
    /\ Constructed = {"ems", "iot"}
    /\ accessed = {"ems", "iot", "sis"}
    /\ \A s \in Services \ {"ems", "iot"} : ncons[s] = 0

(* C3: every client obtained from the Clients instance was constructed with
   one and the same AuthContext, the auth the instance holds. *)
C3_SharedAuth ==
    /\ \A s \in Constructed : cache[s].auth = auth
    /\ \A s, u \in Constructed : cache[s].auth = cache[u].auth
    /\ ret.inst # NoInstance => ret.inst.auth = auth

(* Three different clients constructed, all with the holder's auth. *)
C3_Witness ==
    /\ Cardinality(Constructed) = 3
    /\ \A s \in Constructed : cache[s].auth = auth
    /\ ret.inst # NoInstance /\ ret.inst.auth = auth

(***************************************************************************)
(*                          Properties of pluck                            *)
(*                                                                         *)
(* The claims speak of the segments of a dotted path and of the value      *)
(* item.step1.step2...stepN; both are stated here on their own, apart      *)
(* from the operators that model the code.                                 *)
(***************************************************************************)

(* The positions of the separator character c in k, and the p-th of them. *)
CutSet(k, c) == {i \in 1..Len(k) : k[i] = c}
Cut(k, c, p) ==
    IF p = 0
    THEN 0
    ELSE IF p > Cardinality(CutSet(k, c))
         THEN Len(k) + 1
         ELSE CHOOSE i \in CutSet(k, c) :
                  Cardinality({j \in CutSet(k, c) : j < i}) = p - 1

(* The pieces of k between consecutive separators. *)
Segments(k, c) ==
    [p \in 1..(Cardinality(CutSet(k, c)) + 1) |->
        SubSeq(k, Cut(k, c, p - 1) + 1, Cut(k, c, p) - 1)]

Missing == [kind |-> "missing", val |-> "", attrs |-> <<>>]

(* item.step1.step2...stepN, or Missing when a step does not exist. *)
RECURSIVE Lookup(_, _)
Lookup(d, segs) ==
    IF segs = <<>>
    THEN d
    ELSE IF d.kind = "obj" /\ Head(segs) \in DOMAIN d.attrs
         THEN Lookup(d.attrs[Head(segs)], Tail(segs))
         ELSE Missing

PathValue(d, k, key_sep) == Lookup(d, Segments(k, key_sep[1]))

AllResolve(c) ==
    \A j \in 1..Len(c.items), i \in 1..Len(c.keys) :
        PathValue(c.items[j], c.keys[i], c.key_sep) # Missing

(* A sequence with every later repetition of an element dropped. *)
RECURSIVE Dedup(_)
Dedup(s) ==
    IF s = <<>>
    THEN <<>>
    ELSE LET r == Dedup(SubSeq(s, 1, Len(s) - 1))
         IN  IF InList(s[Len(s)], r) THEN r ELSE Append(r, s[Len(s)])

OutKeys(c) == [i \in 1..Len(c.keys) |-> key_func(c.kf, c.keys[i])]

(* C4: when every path resolves, pluck returns one row per item, in item
   order, and each row's keys are key_func(k) for the keys k, in keys order;
   for empty items the result is the empty sequence whatever the keys. *)
C4_RowPerItemKeysPerRow ==
    pl_call.called =>
        /\ pl_call.items = <<>> => (pl_ret.err = NoErr /\ pl_ret.rows = <<>>)
        /\ AllResolve(pl_call) =>
            /\ pl_ret.err = NoErr
            /\ Len(pl_ret.rows) = Len(pl_call.items)
            /\ \A j \in 1..Len(pl_call.items) :
                LET row == pl_ret.rows[j]
                IN  /\ DictKeySet(row) = {OutKeys(pl_call)[i] : i \in 1..Len(pl_call.keys)}
                    /\ DictKeys(row) = Dedup(OutKeys(pl_call))
                    /\ \A e \in 1..Len(row) :
                        \E i \in 1..Len(pl_call.keys) :
                            /\ row[e].k = OutKeys(pl_call)[i]
                            /\ row[e].v = PathValue(pl_call.items[j], pl_call.keys[i],
                                                    pl_call.key_sep)

(* Two different items projected on two keys under a renaming key_func. *)
C4_Witness ==
    /\ pl_call.called
    /\ pl_call.items = <<obj2, obj1>>
    /\ pl_call.keys = <<kAdCity, kName>>
    /\ pl_call.key_sep = <<".">>
    /\ pl_call.kf = "last_segment"
    /\ pl_ret.err = NoErr
    /\ Len(pl_ret.rows) = 2
    /\ DictKeys(pl_ret.rows[1]) = <<sCity, sName>>
    /\ DictGet(pl_ret.rows[1], sCity) = Leaf("Boston")
    /\ DictGet(pl_ret.rows[2], sCity) = Leaf("Austin")

(* C5 as stated: for every item and every key k, the value under
   key_func(k) is the left-to-right fold of attribute lookup over the
   segments of k; under the identity the output key is k itself. *)
C5_ValueUnderEveryKey ==
    (pl_call.called /\ AllResolve(pl_call)) =>
        /\ pl_ret.err = NoErr
        /\ \A j \in 1..Len(pl_call.items), i \in 1..Len(pl_call.keys) :
            /\ OutKeys(pl_call)[i] \in DictKeySet(pl_ret.rows[j])
            /\ DictGet(pl_ret.rows[j], OutKeys(pl_call)[i])
                   = PathValue(pl_call.items[j], pl_call.keys[i], pl_call.key_sep)

(* The last position in keys whose output key is that of position i. *)
LastWithKey(c, i) ==
    CHOOSE m \in i..Len(c.keys) :
        /\ OutKeys(c)[m] = OutKeys(c)[i]
        /\ \A n \in (m + 1)..Len(c.keys) : OutKeys(c)[n] # OutKeys(c)[i]

(* C5 amended: the value under key_func(k) is the fold over the segments of
   the last key in keys that key_func sends to key_func(k): of k itself
   when key_func sends no later key there, so for every k under the
   identity, where the output key is k. *)
C5_ValueUnderLastKey ==
    (pl_call.called /\ AllResolve(pl_call)) =>
        /\ pl_ret.err = NoErr
        /\ \A j \in 1..Len(pl_call.items), i \in 1..Len(pl_call.keys) :
            /\ OutKeys(pl_call)[i] \in DictKeySet(pl_ret.rows[j])
            /\ DictGet(pl_ret.rows[j], OutKeys(pl_call)[i])
                   = PathValue(pl_call.items[j],
                               pl_call.keys[LastWithKey(pl_call, i)], pl_call.key_sep)
            /\ pl_call.kf = "identity" =>
                /\ pl_call.keys[i] \in DictKeySet(pl_ret.rows[j])
                /\ DictGet(pl_ret.rows[j], pl_call.keys[i])
                       = PathValue(pl_call.items[j], pl_call.keys[i], pl_call.key_sep)

(* The scenario of the spec: name and address.city of one object. *)
C5_Witness ==
    /\ pl_call.called
    /\ pl_call.items = <<obj1>>
    /\ pl_call.keys = <<kName, kAdCity>>
    /\ pl_call.key_sep = <<".">>
    /\ pl_call.kf = "identity"
    /\ pl_ret = [err |-> NoErr,
                 rows |-> << <<[k |-> kName, v |-> Leaf("Acme")],
                               [k |-> kAdCity, v |-> Leaf("Austin")]>> >>]

(* C6: pluck is fail-fast.  If any step of any requested path is missing
   on any item, pluck raises the attribute error and returns nothing: no
   partial rows, no None in place of the value. *)
C6_FailFast ==
    (pl_call.called /\ ~AllResolve(pl_call)) =>
        /\ pl_ret.err = AttributeError
        /\ pl_ret.rows = <<>>

(* The first item resolves every path, the second lacks the address. *)
C6_Witness ==
    /\ pl_call.called
    /\ pl_call.items = <<obj1, obj3>>
    /\ pl_call.keys = <<kName, kAdCity>>
    /\ pl_call.key_sep = <<".">>
    /\ pl_ret.err = AttributeError
    /\ pl_ret.rows = <<>>

(***************************************************************************)
(*                       Properties of print_table                         *)
(***************************************************************************)

TableEvents == {i \in 1..Len(pt_out) : pt_out[i].ev = "table"}
CountEvents == {i \in 1..Len(pt_out) : pt_out[i].ev = "count"}

(* The projection the claims speak of: per item, one entry per requested
   key, first occurrences in order, each with the value of its path. *)
ExpectedRow(keys, d) ==
    [e \in 1..Len(Dedup(keys)) |->
        [k |-> Dedup(keys)[e], v |-> PathValue(d, Dedup(keys)[e], <<".">>)]]

ExpectedRows(keys, items) == [j \in 1..Len(items) |-> ExpectedRow(keys, items[j])]

ExpectedSort(keys, sort_by) ==
    IF ~sort_by.none /\ \E i \in 1..Len(keys) : keys[i] = sort_by.v
    THEN sort_by
    ELSE None

PrintResolves ==
    Truthy(pt_call.keys) =>
        AllResolve([items |-> pt_call.items, keys |-> pt_call.keys.v, key_sep |-> <<".">>])

(* C7 as stated: whenever keys are given, what the renderer receives is the
   projection of the items onto keys, with sort_by if it is among keys and
   None if it is not. *)
C7_KeysGivenProjects ==
    (pt_call.called /\ ~pt_call.keys.none) =>
        \A i \in TableEvents :
            /\ pt_out[i].sort_by = ExpectedSort(pt_call.keys.v, pt_call.sort_by)
            /\ pt_out[i].items = ExpectedRows(pt_call.keys.v, pt_call.items)

(* C7 amended: with keys given and not empty, the renderer receives the
   projection and the sort key cleared when it is not among keys, which is
   no error; with keys None or empty it receives the items and sort_by as
   they were passed. *)
C7_NonEmptyKeysProject ==
    pt_call.called =>
        /\ (PrintResolves /\ pt_call.items # <<>>) => TableEvents # {}
        /\ PrintResolves => pt_err = NoErr
        /\ Truthy(pt_call.keys) =>
            \A i \in TableEvents :
                /\ pt_out[i].sort_by = ExpectedSort(pt_call.keys.v, pt_call.sort_by)
                /\ pt_out[i].items = ExpectedRows(pt_call.keys.v, pt_call.items)
        /\ ~Truthy(pt_call.keys) =>
            \A i \in TableEvents :
                /\ pt_out[i].sort_by = pt_call.sort_by
                /\ pt_out[i].items = pt_call.items

(* The scenario of the spec: sorting by a field the keys leave out. *)
C7_Witness ==
    /\ pt_call.called
    /\ pt_call.keys = Some(<<kName, kAdCity>>)
    /\ pt_call.sort_by = Some(kAdZip)
    /\ pt_call.items = <<obj2>>
    /\ pt_err = NoErr
    /\ TableEvents = {1}
    /\ pt_out[1].sort_by = None
    /\ pt_out[1].items = << <<[k |-> kName, v |-> Leaf("Bolt")],
                              [k |-> kAdCity, v |-> Leaf("Boston")]>> >>

(* The order and the conditions of the output events. *)
EventsAsClaimed ==
    /\ TableEvents # {} <=> pt_call.items # <<>>
    /\ Cardinality(TableEvents) <= 1
    /\ pt_call.count =>
        /\ CountEvents = {Len(pt_out)}
        /\ Len(pt_out) >= 1
        /\ pt_out[Len(pt_out)].n = Len(pt_call.items)
        /\ \A i \in TableEvents : i < Len(pt_out)
    /\ ~pt_call.count => CountEvents = {}

(* C9 as stated: the table is rendered exactly when the item list is not
   empty; with count true one count line giving the number of items comes
   last, also for an empty list; with count false there is none. *)
C9_OutputEvents == pt_call.called => EventsAsClaimed

(* C9 amended: the events are as stated whenever the projection raises no
   attribute error; when it raises, print_table is left before anything is
   printed, the count line included. *)
C9_OutputEventsUnlessRaised ==
    pt_call.called =>
        /\ PrintResolves => (pt_err = NoErr /\ EventsAsClaimed)
        /\ ~PrintResolves => (pt_err = AttributeError /\ pt_out = <<>>)

(* Two items projected and counted: the table, then the count line. *)
C9_Witness ==
    /\ pt_call.called
    /\ pt_call.items = <<obj1, obj2>>
    /\ pt_call.keys = Some(<<kName>>)
    /\ pt_call.count
    /\ pt_err = NoErr
    /\ Len(pt_out) = 2
    /\ pt_out[1].ev = "table"
    /\ pt_out[2] = CountEvent(2)

(***************************************************************************)
(*                       Properties of csv_callback                        *)
(***************************************************************************)

(* s without the whitespace at its two ends. *)
Trim(s) ==
    LET solid == {i \in 1..Len(s) : s[i] # " "}
    IN  IF solid = {}
        THEN <<>>
        ELSE SubSeq(s, CHOOSE a \in solid : \A b \in solid : a <= b,
                       CHOOSE a \in solid : \A b \in solid : a >= b)

(* The comma-separated tokens of s, trimmed, in their order. *)
Tokens(s) == [i \in 1..Len(Segments(s, ",")) |-> Trim(Segments(s, ",")[i])]

IsOption(f, options) == \E i \in 1..Len(options) : options[i] = f

(* C8: on a comma-delimited string the callback returns the stripped tokens
   in their order when each is an option, and raises BadParameter naming
   the offending token when one is not; on the literal "all" with no `all`
   override it returns options. *)
C8_CsvTokens ==
    (cb_call.called /\ cb_call.value.kind = "str") =>
        LET s == cb_call.value.s
            toks == Tokens(s)
            bad == {i \in 1..Len(toks) : ~IsOption(toks[i], cb_call.options)}
        IN  /\ (s # sAll /\ bad = {}) =>
                (cb_ret.err = NoErr /\ cb_ret.fields = toks)
            /\ (s # sAll /\ bad # {}) =>
                /\ cb_ret.err = BadParameter
                /\ cb_ret.bad = toks[CHOOSE i \in bad : \A j \in bad : i <= j]
            /\ (s = sAll /\ cb_call.all.none) =>
                (cb_ret.err = NoErr /\ cb_ret.fields = cb_call.options)

(* The scenario of the spec: "a, b" resolves to a and b. *)
C8_Witness ==
    /\ cb_call.called
    /\ cb_call.via = "csv_callback"
    /\ cb_call.value = StrValue(<<"a", ",", " ", "b">>)
    /\ cb_call.options = <<tA, tB>>
    /\ cb_ret.err = NoErr
    /\ cb_ret.fields = <<tA, tB>>

(* C10: on the literal "all" the parse step yields the caller's `all` list
   whenever the caller supplied one, as fields_option does, and options
   only when the caller supplied none. *)
C10_AllExpandsToOverride ==
    (cb_call.called /\ cb_call.value = StrValue(sAll)) =>
        cb_ret.parsed = Some(IF cb_call.all.none THEN cb_call.options ELSE cb_call.all.v)

====
